---- MODULE Spec2Model ----
(***************************************************************************)
(* Mollie for Raycast: the two commands (payments list, transactions menu  *)
(* bar), their shared authorization bootstrap, the payment and settlement  *)
(* fetches, the refund workflow, the status filter and the today           *)
(* aggregate.                                                              *)
(*                                                                         *)
(* Spec           the commands as a state machine (bootstrap, fetches,     *)
(*                refund workflows, filter selection)                      *)
(* SpecFilter     filteredPayments over bounded collections and selectors  *)
(* SpecAggregate  the totalAmount/transactionCount memo over bounded       *)
(*                collections and clocks                                   *)
(***************************************************************************)
EXTENDS Integers, Sequences, FiniteSets, TLC

VARIABLES
    command,             \* which command was activated
    accessToken,         \* Command: useState<string | null>(null)
    isLoading,           \* Command: useState<boolean>(true)
    error,               \* Command: useState<Error | null>(null)
    authPc,              \* position of doAuthorize()
    effectPending,       \* the useEffect of Command is scheduled to run
    authorizeCalls,      \* number of authorize() calls made
    authToast,           \* the toast shown by the catch block of doAuthorize
    mounted,             \* PaymentsList / TransactionsMenuBar is mounted
    data,                \* useFetch(payments).data
    isLoadingPayments,   \* useFetch(payments).isLoading
    settlementData,      \* useFetch(settlements/next).data
    isLoadingSettlement, \* useFetch(settlements/next).isLoading
    fetchAuth,           \* tokens sent in the Authorization header of every GET issued
    statusFilter,        \* PaymentsList: useState<string>("all")
    refund,              \* one record per handleRefund invocation
    now,                 \* the clock read by new Date()
    out                  \* result of the last memo evaluation (SpecFilter, SpecAggregate)

vars == <<command, accessToken, isLoading, error, authPc, effectPending,
          authorizeCalls, authToast, mounted, data, isLoadingPayments,
          settlementData, isLoadingSettlement, fetchAuth, statusFilter,
          refund, now, out>>

---------------------------------------------------------------------------
(* Bounds *)

\* payments a fetched page may hold in Spec
MaxPayments == 2
\* handleRefund invocations per activation
MaxRefunds == 2
\* cap on authorize() calls (only a broken effect reaches it)
MaxAuthorizeCalls == 3
\* length of the collections given to filteredPayments in SpecFilter
MaxFilterLen == 3
\* length of the collections given to the today aggregate in SpecAggregate
MaxAggLen == 3
\* clock ticks per local calendar day
TicksPerDay == 2

---------------------------------------------------------------------------
(* Values *)

NoToken == "null"
NoError == "null"

Commands == {"paymentsList", "menuBar"}
Tokens == {"tokA", "tokB"}
AuthErrors == {"access_denied"}

Statuses == {"paid", "open", "pending", "failed", "expired", "canceled",
             "refunded", "refund-pending"}
Selectors == {"all"} \cup Statuses

\* statuses the payments of a fetched page carry in Spec
FetchedStatuses == {"paid", "refunded"}
\* selectors the user picks in Spec: one that shows every row, one that shows
\* no refundable row
PickedSelectors == {"all", "refunded"}
\* statuses the payments given to filteredPayments carry in SpecFilter
FilterStatuses == {"paid", "open", "refunded"}

Workflows == 1..MaxRefunds

RECURSIVE SeqsUpTo(_, _)
SeqsUpTo(S, n) ==
    IF n = 0 THEN {<<>>}
    ELSE LET shorter == SeqsUpTo(S, n - 1)
         IN  shorter \cup {Append(s, x) : s \in {t \in shorter : Len(t) = n - 1}, x \in S}

\* a page of payments: distinct ids, in the order the API returned them
Pages ==
    {c \in SeqsUpTo([id : 1..MaxPayments, status : FetchedStatuses], MaxPayments) :
        \A i, j \in 1..Len(c) : i < j => c[i].id < c[j].id}

NoData == [present |-> FALSE, payments |-> <<>>]
Fetched(c) == [present |-> TRUE, payments |-> c]

NoSettlement == [present |-> FALSE, amount |-> "", settlementDate |-> ""]
\* bodies GET /v2/settlements/next may deliver: nothing, a full record, or a
\* record with a field missing ("" stands for an absent field)
SettlementResponses ==
    {NoSettlement} \cup
    [present : {TRUE}, amount : {"", "12.00 EUR"}, settlementDate : {"", "2026-11-05"}]

NoPayment == [id |-> 0, status |-> "none"]

\* error envelopes of a non-2xx refund response ("" stands for an absent field)
NoBody == [kind |-> "none", detail |-> "", title |-> ""]
ErrorBodies ==
    {[kind |-> "json", detail |-> "insufficient balance", title |-> "Unprocessable Entity"],
     [kind |-> "json", detail |-> "", title |-> "Unprocessable Entity"],
     [kind |-> "json", detail |-> "", title |-> ""],
     [kind |-> "invalid", detail |-> "", title |-> ""]}
ErrorStatuses == {422, 502}
\* what fetch() rejects with
RequestErrors == {[isError |-> TRUE, message |-> "fetch failed"]}

JsonSyntaxError == "Unexpected token < in JSON at position 0"

---------------------------------------------------------------------------
(* Command: the authorization bootstrap (identical in both commands) *)

\* what Command renders
View ==
    IF error # NoError THEN "AuthFailed"
    ELSE IF isLoading THEN "Loading"
    ELSE "Content"

Loading == View = "Loading"
Failed == View = "AuthFailed"
Ready == View = "Content"

\* mutant: the effect has no dependency list and runs after every render
EffectRunsEveryRender == TRUE

\* useEffect(..., []): the empty dependency list never changes between renders
EffectDepsChanged == FALSE

\* a memo that has not been evaluated yet
NotEvaluated == [evaluated |-> FALSE, value |-> <<>>]
Evaluated(v) == [evaluated |-> TRUE, value |-> v]

\* one handleRefund invocation: where it is suspended (pc), the payment its
\* closure holds while it is still read, the alert's answer, the POSTs and
\* revalidate() calls it made, its toast (style, message), how the POST
\* ended (result) and the non-2xx response being read (httpStatus, body)
InitRefund ==
    [pc |-> "Idle", payment |-> NoPayment, posts |-> 0, refetches |-> 0,
     answer |-> "none", style |-> "None", message |-> "", result |-> "none",
     httpStatus |-> 0, body |-> NoBody]

Init ==
    /\ command \in Commands
    /\ accessToken = NoToken
    /\ isLoading = TRUE
    /\ error = NoError
    /\ authPc = "idle"
    /\ effectPending = TRUE
    /\ authorizeCalls = 0
    /\ authToast = [style |-> "None", message |-> ""]
    /\ mounted = FALSE
    /\ data = NoData
    /\ isLoadingPayments = FALSE
    /\ settlementData = NoSettlement
    /\ isLoadingSettlement = FALSE
    /\ fetchAuth = {}
    /\ statusFilter = "all"
    /\ refund = [w \in Workflows |-> InitRefund]
    /\ now = 0
    /\ out = NotEvaluated

contentVars == <<mounted, data, isLoadingPayments, settlementData,
                 isLoadingSettlement, fetchAuth, statusFilter, refund>>
pureVars == <<now, out>>

\* the effect runs after a render: doAuthorize() is called and awaits authorize()
RunEffect ==
    /\ effectPending
    /\ authorizeCalls < MaxAuthorizeCalls
    /\ effectPending' = FALSE
    /\ authorizeCalls' = authorizeCalls + 1
    /\ authPc' = "awaiting"
    /\ UNCHANGED <<command, accessToken, isLoading, error, authToast>>
    /\ UNCHANGED contentVars
    /\ UNCHANGED pureVars

\* authorize() resolved: setAccessToken(token)
AuthorizeResolved(token) ==
    /\ authPc = "awaiting"
    /\ accessToken' = token
    /\ authPc' = "settled"
    /\ effectPending' = (effectPending \/ EffectDepsChanged)
    /\ UNCHANGED <<command, isLoading, error, authorizeCalls, authToast>>
    /\ UNCHANGED contentVars
    /\ UNCHANGED pureVars

\* authorize() rejected: setError(err); showToast(Failure, ...)
AuthorizeRejected(err) ==
    /\ authPc = "awaiting"
    /\ error' = err
    /\ authToast' = [style |-> "Failure", message |-> err]
    /\ authPc' = "settled"
    /\ effectPending' = (effectPending \/ EffectDepsChanged)
    /\ UNCHANGED <<command, accessToken, isLoading, authorizeCalls>>
    /\ UNCHANGED contentVars
    /\ UNCHANGED pureVars

\* finally: setIsLoading(false)
AuthorizeFinally ==
    /\ authPc = "settled"
    /\ isLoading' = FALSE
    /\ authPc' = "done"
    /\ effectPending' = (effectPending \/ EffectDepsChanged)
    /\ UNCHANGED <<command, accessToken, error, authorizeCalls, authToast>>
    /\ UNCHANGED contentVars
    /\ UNCHANGED pureVars

authVars == <<command, accessToken, isLoading, error, authPc, effectPending,
              authorizeCalls, authToast>>

---------------------------------------------------------------------------
(* PaymentsList / TransactionsMenuBar: the fetches *)

\* mutant: the content component is rendered without waiting for isLoading
RendersContentWhileLoading == error = NoError

\* Command's last line: the content component is rendered only when there is
\* no error and isLoading is false
RendersContent == View = "Content"

\* first render of the content component: useFetch issues its GETs with the
\* accessToken prop in the Authorization header
MountContent ==
    /\ RendersContent
    /\ ~mounted
    /\ mounted' = TRUE
    /\ isLoadingPayments' = TRUE
    /\ isLoadingSettlement' = (command = "menuBar")
    /\ fetchAuth' = fetchAuth \cup {accessToken}
    /\ UNCHANGED <<data, settlementData, statusFilter, refund>>
    /\ UNCHANGED authVars
    /\ UNCHANGED pureVars

\* GET /v2/payments?limit=250 delivered a page: data is replaced by it
PaymentsFetchSucceeded(page) ==
    /\ mounted
    /\ isLoadingPayments
    /\ data' = Fetched(page)
    /\ isLoadingPayments' = FALSE
    /\ UNCHANGED <<mounted, settlementData, isLoadingSettlement, fetchAuth,
                   statusFilter, refund>>
    /\ UNCHANGED authVars
    /\ UNCHANGED pureVars

\* GET /v2/payments failed: the hook stops loading; whether it keeps the data
\* it had is the library's choice
PaymentsFetchFailed(keep) ==
    /\ mounted
    /\ isLoadingPayments
    /\ data' = IF keep THEN data ELSE NoData
    /\ isLoadingPayments' = FALSE
    /\ UNCHANGED <<mounted, settlementData, isLoadingSettlement, fetchAuth,
                   statusFilter, refund>>
    /\ UNCHANGED authVars
    /\ UNCHANGED pureVars

\* GET /v2/settlements/next delivered
SettlementFetchSucceeded(s) ==
    /\ mounted
    /\ isLoadingSettlement
    /\ settlementData' = s
    /\ isLoadingSettlement' = FALSE
    /\ UNCHANGED <<mounted, data, isLoadingPayments, fetchAuth, statusFilter, refund>>
    /\ UNCHANGED authVars
    /\ UNCHANGED pureVars

\* GET /v2/settlements/next failed
SettlementFetchFailed ==
    /\ mounted
    /\ isLoadingSettlement
    /\ isLoadingSettlement' = FALSE
    /\ UNCHANGED <<mounted, data, isLoadingPayments, settlementData, fetchAuth,
                   statusFilter, refund>>
    /\ UNCHANGED authVars
    /\ UNCHANGED pureVars

---------------------------------------------------------------------------
(* PaymentsList: the status filter and the refund workflow *)

\* const allPayments = data?._embedded?.payments || []
AllPayments == IF data.present THEN data.payments ELSE <<>>

IsStatus(sel, payment) == payment.status = sel

\* mutant: no branch for "all", every selector is matched against the status
FilteredPaymentsNoAll(allPayments, sel) ==
    SelectSeq(allPayments, LAMBDA payment : IsStatus(sel, payment))

\* the filteredPayments memo
FilteredPayments(allPayments, sel) ==
    IF sel = "all" THEN allPayments
    ELSE SelectSeq(allPayments, LAMBDA payment : IsStatus(sel, payment))

\* {payment.status === "paid" && <Action title="Refund Payment" .../>}
RefundOffered(payment) == payment.status = "paid"

\* the status the displayed collection shows for a payment id
ShownStatus(id) ==
    IF \E i \in 1..Len(AllPayments) : AllPayments[i].id = id
    THEN (CHOOSE p \in {AllPayments[i] : i \in 1..Len(AllPayments)} : p.id = id).status
    ELSE "absent"

\* a || b on strings and absent fields
OrElse(a, b) == IF a # "" THEN a ELSE b

HttpStatusMessage(status) ==
    CASE status = 422 -> "HTTP error! Status: 422"
      [] status = 502 -> "HTTP error! Status: 502"

\* the message of what the !response.ok branch throws: response.json() throws
\* on a body that is not JSON, otherwise
\* new Error(errorData.detail || errorData.title || `HTTP error! ...`)
ThrownMessage(body, status) ==
    CASE body.kind = "invalid" -> JsonSyntaxError
      [] OTHER -> OrElse(OrElse(body.detail, body.title), HttpStatusMessage(status))

\* catch: error instanceof Error ? error.message : "An unknown error occurred."
CatchMessage(e) == IF e.isError THEN e.message ELSE "An unknown error occurred."

listVars == <<mounted, settlementData, isLoadingSettlement>>

\* the user changes the dropdown
SetStatusFilter(sel) ==
    /\ mounted
    /\ command = "paymentsList"
    /\ sel # statusFilter
    /\ statusFilter' = sel
    /\ UNCHANGED <<data, isLoadingPayments, fetchAuth, refund>>
    /\ UNCHANGED listVars
    /\ UNCHANGED authVars
    /\ UNCHANGED pureVars

\* the alert of confirmAlert is modal: one at a time
NoAlertOpen == \A w \in Workflows : refund[w].pc # "Confirming"

\* the user runs "Refund Payment" on row i: handleRefund(payment) opens the alert
HandleRefund(w, i) ==
    /\ mounted
    /\ command = "paymentsList"
    /\ NoAlertOpen
    /\ refund[w].pc = "Idle"
    /\ \A v \in Workflows : v < w => refund[v].pc # "Idle"
    /\ i \in 1..Len(FilteredPayments(AllPayments, statusFilter))
    /\ RefundOffered(FilteredPayments(AllPayments, statusFilter)[i])
    /\ refund' = [refund EXCEPT ![w].pc = "Confirming",
                                ![w].payment = FilteredPayments(AllPayments, statusFilter)[i]]
    /\ UNCHANGED <<data, isLoadingPayments, fetchAuth, statusFilter>>
    /\ UNCHANGED listVars
    /\ UNCHANGED authVars
    /\ UNCHANGED pureVars

\* mutant: the !confirmed check does not return
ConfirmDeclinedProceeds(w) ==
    /\ refund[w].pc = "Confirming"
    /\ refund' = [refund EXCEPT ![w].pc = "Toasting", ![w].answer = "no",
                                ![w].style = "Animated"]
    /\ UNCHANGED <<data, isLoadingPayments, fetchAuth, statusFilter>>
    /\ UNCHANGED listVars
    /\ UNCHANGED authVars
    /\ UNCHANGED pureVars

\* confirmAlert resolved false (cancel or dismiss): return
ConfirmDeclined(w) ==
    /\ refund[w].pc = "Confirming"
    /\ refund' = [refund EXCEPT ![w].pc = "Returned", ![w].answer = "no",
                                ![w].payment = NoPayment]
    /\ UNCHANGED <<data, isLoadingPayments, fetchAuth, statusFilter>>
    /\ UNCHANGED listVars
    /\ UNCHANGED authVars
    /\ UNCHANGED pureVars

\* confirmAlert resolved true: showToast(Animated, "Processing refund...") is awaited
ConfirmAccepted(w) ==
    /\ refund[w].pc = "Confirming"
    /\ refund' = [refund EXCEPT ![w].pc = "Toasting", ![w].answer = "yes",
                                ![w].style = "Animated"]
    /\ UNCHANGED <<data, isLoadingPayments, fetchAuth, statusFilter>>
    /\ UNCHANGED listVars
    /\ UNCHANGED authVars
    /\ UNCHANGED pureVars

\* showToast resolved: fetch(.../payments/{id}/refunds, POST) is issued
IssueRefund(w) ==
    /\ refund[w].pc = "Toasting"
    /\ refund' = [refund EXCEPT ![w].pc = "Processing", ![w].posts = @ + 1]
    /\ UNCHANGED <<data, isLoadingPayments, fetchAuth, statusFilter>>
    /\ UNCHANGED listVars
    /\ UNCHANGED authVars
    /\ UNCHANGED pureVars

\* mutant: success without revalidate()
RefundOkNoRevalidate(w) ==
    /\ refund[w].pc = "Processing"
    /\ refund' = [refund EXCEPT ![w].pc = "Returned",
                                ![w].payment = NoPayment,
                                ![w].result = "ok",
                                ![w].style = "Success",
                                ![w].message = "Refunded"]
    /\ UNCHANGED <<data, isLoadingPayments, fetchAuth, statusFilter>>
    /\ UNCHANGED listVars
    /\ UNCHANGED authVars
    /\ UNCHANGED pureVars

\* mutant: success also patches the payment's status in the displayed data
RefundOkPatchesStatus(w) ==
    /\ refund[w].pc = "Processing"
    /\ refund' = [refund EXCEPT ![w].pc = "Returned",
                                ![w].payment = NoPayment,
                                ![w].result = "ok",
                                ![w].style = "Success",
                                ![w].message = "Refunded",
                                ![w].refetches = @ + 1]
    /\ data' = [data EXCEPT !.payments =
                    [i \in 1..Len(data.payments) |->
                        IF data.payments[i].id = refund[w].payment.id
                        THEN [data.payments[i] EXCEPT !.status = "refunded"]
                        ELSE data.payments[i]]]
    /\ isLoadingPayments' = TRUE
    /\ fetchAuth' = fetchAuth \cup {accessToken}
    /\ UNCHANGED statusFilter
    /\ UNCHANGED listVars
    /\ UNCHANGED authVars
    /\ UNCHANGED pureVars

\* response.ok: the toast turns Success and revalidate() re-issues the payments GET
RefundOk(w) ==
    /\ refund[w].pc = "Processing"
    /\ refund' = [refund EXCEPT ![w].pc = "Returned",
                                ![w].payment = NoPayment,
                                ![w].result = "ok",
                                ![w].style = "Success",
                                ![w].message = "Refunded",
                                ![w].refetches = @ + 1]
    /\ isLoadingPayments' = TRUE
    /\ fetchAuth' = fetchAuth \cup {accessToken}
    /\ UNCHANGED <<data, statusFilter>>
    /\ UNCHANGED listVars
    /\ UNCHANGED authVars
    /\ UNCHANGED pureVars

\* a non-2xx response arrived: response.json() is awaited (payment is not
\* read again on this path)
RefundNotOk(w, status, body) ==
    /\ refund[w].pc = "Processing"
    /\ refund' = [refund EXCEPT ![w].pc = "ReadingError",
                                ![w].payment = NoPayment,
                                ![w].result = "http",
                                ![w].httpStatus = status,
                                ![w].body = body]
    /\ UNCHANGED <<data, isLoadingPayments, fetchAuth, statusFilter>>
    /\ UNCHANGED listVars
    /\ UNCHANGED authVars
    /\ UNCHANGED pureVars

\* the body was read (or could not be): throw, and catch turns the toast
\* Failure; the response is dropped with the call
RefundErrorBody(w) ==
    /\ refund[w].pc = "ReadingError"
    /\ refund' = [refund EXCEPT ![w].pc = "Returned",
                                ![w].httpStatus = 0,
                                ![w].body = NoBody,
                                ![w].style = "Failure",
                                ![w].message =
                                    ThrownMessage(refund[w].body, refund[w].httpStatus)]
    /\ UNCHANGED <<data, isLoadingPayments, fetchAuth, statusFilter>>
    /\ UNCHANGED listVars
    /\ UNCHANGED authVars
    /\ UNCHANGED pureVars

\* fetch() rejected: catch turns the toast Failure
RefundRejected(w, e) ==
    /\ refund[w].pc = "Processing"
    /\ refund' = [refund EXCEPT ![w].pc = "Returned",
                                ![w].payment = NoPayment,
                                ![w].result = "network",
                                ![w].style = "Failure",
                                ![w].message = CatchMessage(e)]
    /\ UNCHANGED <<data, isLoadingPayments, fetchAuth, statusFilter>>
    /\ UNCHANGED listVars
    /\ UNCHANGED authVars
    /\ UNCHANGED pureVars

---------------------------------------------------------------------------
(* TransactionsMenuBar: the settlement sections *)

\* settlementData?.amount && settlementData?.settlementDate
HasSettlementData ==
    /\ settlementData.present
    /\ settlementData.amount # ""
    /\ settlementData.settlementDate # ""

\* the "Estimated next payout" section is rendered
ShowsForecast == HasSettlementData

\* mutant: the absence is gated on the payments loading flag
ShowsNoUpcomingOnPaymentsFlag == ~HasSettlementData /\ ~isLoadingPayments

\* the "No upcoming settlement" item is rendered
ShowsNoUpcoming == ~HasSettlementData /\ ~isLoadingSettlement

---------------------------------------------------------------------------

Next ==
    \/ RunEffect
    \/ \E token \in Tokens : AuthorizeResolved(token)
    \/ \E err \in AuthErrors : AuthorizeRejected(err)
    \/ AuthorizeFinally
    \/ MountContent
    \/ \E page \in Pages : PaymentsFetchSucceeded(page)
    \/ \E keep \in BOOLEAN : PaymentsFetchFailed(keep)
    \/ \E s \in SettlementResponses : SettlementFetchSucceeded(s)
    \/ SettlementFetchFailed
    \/ \E sel \in PickedSelectors : SetStatusFilter(sel)
    \/ \E w \in Workflows, i \in 1..MaxPayments : HandleRefund(w, i)
    \/ \E w \in Workflows : ConfirmDeclined(w)
    \/ \E w \in Workflows : ConfirmAccepted(w)
    \/ \E w \in Workflows : IssueRefund(w)
    \/ \E w \in Workflows : RefundOk(w)
    \/ \E w \in Workflows, status \in ErrorStatuses, body \in ErrorBodies :
          RefundNotOk(w, status, body)
    \/ \E w \in Workflows : RefundErrorBody(w)
    \/ \E w \in Workflows, e \in RequestErrors : RefundRejected(w, e)

Spec == Init /\ [][Next]_vars

---------------------------------------------------------------------------
(* SpecFilter: the filteredPayments memo over bounded collections *)

\* collections of up to MaxFilterLen payments with distinct ids, in any order
FilterInputs ==
    {c \in SeqsUpTo([id : 1..MaxFilterLen, status : FilterStatuses], MaxFilterLen) :
        \A i, j \in 1..Len(c) : i # j => c[i].id # c[j].id}

\* a mounted PaymentsList whose fetch delivered some collection
InitFilter ==
    /\ command = "paymentsList"
    /\ accessToken = "tokA"
    /\ isLoading = FALSE
    /\ error = NoError
    /\ authPc = "done"
    /\ effectPending = FALSE
    /\ authorizeCalls = 1
    /\ authToast = [style |-> "None", message |-> ""]
    /\ mounted = TRUE
    /\ data \in {Fetched(c) : c \in FilterInputs}
    /\ isLoadingPayments = FALSE
    /\ settlementData = NoSettlement
    /\ isLoadingSettlement = FALSE
    /\ fetchAuth = {"tokA"}
    /\ statusFilter = "all"
    /\ refund = [w \in Workflows |-> InitRefund]
    /\ now = 0
    /\ out = NotEvaluated

\* the render evaluates the memo
FilterRender ==
    /\ ~out.evaluated
    /\ out' = Evaluated(FilteredPayments(AllPayments, statusFilter))
    /\ UNCHANGED <<now, statusFilter, data, isLoadingPayments, fetchAuth, refund>>
    /\ UNCHANGED listVars
    /\ UNCHANGED authVars

\* the dropdown changes: the memo's dependency changed, it is evaluated again
FilterSelect(sel) ==
    /\ out.evaluated
    /\ sel # statusFilter
    /\ statusFilter' = sel
    /\ out' = Evaluated(FilteredPayments(AllPayments, sel))
    /\ UNCHANGED <<now, data, isLoadingPayments, fetchAuth, refund>>
    /\ UNCHANGED listVars
    /\ UNCHANGED authVars

NextFilter ==
    \/ FilterRender
    \/ \E sel \in Selectors : FilterSelect(sel)

SpecFilter == InitFilter /\ [][NextFilter]_vars

---------------------------------------------------------------------------
(* SpecAggregate: the totalAmount / transactionCount memo *)

\* clock values: ticks since the midnight that began yesterday
Yesterday == TicksPerDay - 1
Midnight == TicksPerDay
LaterToday == 2 * TicksPerDay - 1
Tomorrow == 2 * TicksPerDay

CreatedAts == {Yesterday, Midnight, LaterToday, Tomorrow}
Nows == {Midnight, LaterToday}

Amounts ==
    {[value |-> "10.00", currency |-> "EUR"], [value |-> "5.50", currency |-> "USD"],
     [value |-> "3.00", currency |-> "EUR"]}

AggPayments == [status : {"paid", "open"}, createdAt : CreatedAts, amount : Amounts]

AggInputs == {NoData} \cup {Fetched(c) : c \in SeqsUpTo(AggPayments, MaxAggLen)}

\* parseFloat of a decimal string, in hundredths
ParseFloat(value) ==
    CASE value = "10.00" -> 1000
      [] value = "5.50" -> 550
      [] value = "3.00" -> 300

CurrencySymbol(currency) ==
    CASE currency = "EUR" -> "EUR-sign"
      [] currency = "USD" -> "US$"

\* Intl.NumberFormat("nl-NL", {style: "currency", currency}).format(value):
\* the symbol, the whole part and the two decimals
FormatCurrency(value, currency) ==
    <<CurrencySymbol(currency), value \div 100, value % 100>>

\* today.setHours(0, 0, 0, 0); today.getTime()
StartOfDay(t) == t - (t % TicksPerDay)

\* mutant: a payment created exactly at midnight is left out
IsTodayPaidAfterMidnight(p, todayTimestamp) ==
    p.status = "paid" /\ p.createdAt > todayTimestamp

\* p.status === "paid" && paymentDate.getTime() >= todayTimestamp
IsTodayPaid(p, todayTimestamp) == p.status = "paid" /\ p.createdAt >= todayTimestamp

\* reduce((sum, p) => sum + parseFloat(p.amount.value), 0)
RECURSIVE Reduce(_)
Reduce(payments) ==
    IF payments = <<>> THEN 0
    ELSE Reduce(SubSeq(payments, 1, Len(payments) - 1))
         + ParseFloat(payments[Len(payments)].amount.value)

\* the memo of TransactionsMenuBar
TodayAggregate(d, t) ==
    IF ~d.present
    THEN [totalAmount |-> FormatCurrency(0, "EUR"), transactionCount |-> 0]
    ELSE LET todayTimestamp == StartOfDay(t)
             todayPaidPayments ==
                 SelectSeq(d.payments, LAMBDA p : IsTodayPaid(p, todayTimestamp))
             total == Reduce(todayPaidPayments)
             currency == IF todayPaidPayments # <<>>
                         THEN OrElse(todayPaidPayments[1].amount.currency, "EUR")
                         ELSE "EUR"
         IN  [totalAmount |-> FormatCurrency(total, currency),
              transactionCount |-> Len(todayPaidPayments)]

\* a mounted TransactionsMenuBar with some payments data at some time of day
InitAggregate ==
    /\ command = "menuBar"
    /\ accessToken = "tokA"
    /\ isLoading = FALSE
    /\ error = NoError
    /\ authPc = "done"
    /\ effectPending = FALSE
    /\ authorizeCalls = 1
    /\ authToast = [style |-> "None", message |-> ""]
    /\ mounted = TRUE
    /\ data \in AggInputs
    /\ isLoadingPayments = ~data.present
    /\ settlementData = NoSettlement
    /\ isLoadingSettlement = TRUE
    /\ fetchAuth = {"tokA"}
    /\ statusFilter = "all"
    /\ refund = [w \in Workflows |-> InitRefund]
    /\ now \in Nows
    /\ out = NotEvaluated

\* the render evaluates the memo
AggregateRender ==
    /\ ~out.evaluated
    /\ out' = Evaluated(TodayAggregate(data, now))
    /\ UNCHANGED <<now, statusFilter, data, isLoadingPayments, fetchAuth, refund>>
    /\ UNCHANGED listVars
    /\ UNCHANGED authVars

NextAggregate == AggregateRender

SpecAggregate == InitAggregate /\ [][NextAggregate]_vars

---------------------------------------------------------------------------
(* Properties *)

Ended(w) == refund[w].pc = "Returned"

\* C1: the refund action is offered only for a payment the displayed
\* collection shows as paid, and no refund POST is issued for a payment the
\* displayed collection shows with another status when the request is issued.
C1_RefundOnlyWhileShownPaid ==
    /\ [](\A i \in 1..Len(FilteredPayments(AllPayments, statusFilter)) :
            RefundOffered(FilteredPayments(AllPayments, statusFilter)[i])
                => ShownStatus(FilteredPayments(AllPayments, statusFilter)[i].id) = "paid")
    /\ [][\A w \in Workflows :
            refund'[w].posts > refund[w].posts
                => ShownStatus(refund[w].payment.id) \in {"paid", "absent"}]_vars

\* C2: an invocation issues exactly one refund POST when the user affirms and
\* none when the user declines; a declined invocation has returned with no
\* request, no notification and no re-fetch.
C2_OnePostIffAffirmed ==
    \A w \in Workflows :
        /\ refund[w].posts <= 1
        /\ refund[w].answer = "none" => refund[w].posts = 0
        /\ (refund[w].answer = "yes" /\ refund[w].pc # "Toasting") => refund[w].posts = 1
        /\ refund[w].answer = "no" =>
              /\ Ended(w)
              /\ refund[w].posts = 0
              /\ refund[w].style = "None"
              /\ refund[w].refetches = 0
              /\ refund[w].result = "none"

C2_Witness ==
    \E v, w \in Workflows :
        /\ Ended(v) /\ refund[v].answer = "no"
        /\ Ended(w) /\ refund[w].answer = "yes" /\ refund[w].posts = 1

\* C3: a workflow that reached Processing triggers exactly one re-fetch when
\* the response is a success and none otherwise, and ends with the success
\* notification in the first case and the failure notification in the second.
C3_RefetchIffSuccess ==
    \A w \in Workflows :
        /\ refund[w].refetches <= 1
        /\ refund[w].pc \in {"Processing", "ReadingError"} =>
              refund[w].refetches = 0 /\ refund[w].style = "Animated"
        /\ (Ended(w) /\ refund[w].answer = "yes") =>
              /\ refund[w].result \in {"ok", "http", "network"}
              /\ refund[w].result = "ok" =>
                    refund[w].refetches = 1 /\ refund[w].style = "Success"
              /\ refund[w].result # "ok" =>
                    refund[w].refetches = 0 /\ refund[w].style = "Failure"

C3_Witness ==
    \E v, w \in Workflows :
        /\ Ended(v) /\ refund[v].result = "ok" /\ isLoadingPayments
        /\ Ended(w) /\ refund[w].result = "http"

\* C4: a failed refund's notification carries the envelope's detail if it has
\* one, otherwise its title, otherwise (also with no usable envelope) the
\* generic HTTP status message; for a request-level error, the error's message.
C4_MostSpecificMessage ==
    [][\A w \in Workflows :
        (refund[w].style # "Failure" /\ refund'[w].style = "Failure") =>
            IF refund[w].pc = "ReadingError"
            THEN refund'[w].message =
                    (IF refund[w].body.kind = "json" /\ refund[w].body.detail # ""
                        THEN refund[w].body.detail
                     ELSE IF refund[w].body.kind = "json" /\ refund[w].body.title # ""
                        THEN refund[w].body.title
                     ELSE HttpStatusMessage(refund[w].httpStatus))
            ELSE refund'[w].message \in {e.message : e \in RequestErrors}]_vars

\* C5: while the bootstrap is Loading or Failed no payment or settlement fetch
\* has been issued, and every fetch issued carries the token authorize()
\* returned.
C5_FetchOnlyAfterToken ==
    /\ (Loading \/ Failed) => (fetchAuth = {} /\ ~mounted)
    /\ fetchAuth # {} =>
          /\ authPc = "done"
          /\ accessToken \in Tokens
          /\ fetchAuth = {accessToken}
    /\ (isLoadingPayments \/ isLoadingSettlement \/ data.present \/ settlementData.present)
          => fetchAuth # {}

C5_Witness ==
    /\ command = "menuBar"
    /\ Ready
    /\ fetchAuth = {accessToken}
    /\ isLoadingPayments
    /\ isLoadingSettlement

\* C6: authorize() is called exactly once per activation; the bootstrap leaves
\* Loading once, to Ready with the token or to Failed with the error, and stays
\* there; on Failed the error toast is shown, the failure view is rendered and
\* authorize() is not called again.
C6_BootstrapOnce ==
    /\ [](/\ authorizeCalls <= 1
          /\ authPc # "idle" => authorizeCalls = 1
          /\ Ready => (accessToken \in Tokens /\ authToast.style = "None")
          /\ Failed => /\ View = "AuthFailed"
                       /\ authToast = [style |-> "Failure", message |-> error]
                       /\ ~mounted)
    /\ [][/\ ~Loading => ~Loading'
          /\ Ready => (Ready' /\ accessToken' = accessToken)
          /\ Failed => (Failed' /\ error' = error /\ authToast' = authToast)
          /\ ~Loading => authorizeCalls' = authorizeCalls]_vars

C6_Witness ==
    /\ Failed
    /\ authPc = "done"
    /\ authorizeCalls = 1
    /\ error \in AuthErrors

\* C9: in the menu bar exactly one settlement presentation holds: the forecast
\* when settlement data is present, "No upcoming settlement" when the fetch
\* has completed without data, neither while it is loading without data; and
\* the settlement loading flag moves independently of the payments flag.
C9_SettlementPresentation ==
    /\ [](mounted =>
            /\ ~(ShowsForecast /\ ShowsNoUpcoming)
            /\ HasSettlementData => (ShowsForecast /\ ~ShowsNoUpcoming)
            /\ (~HasSettlementData /\ ~isLoadingSettlement) =>
                  (ShowsNoUpcoming /\ ~ShowsForecast)
            /\ (~HasSettlementData /\ isLoadingSettlement) =>
                  (~ShowsNoUpcoming /\ ~ShowsForecast))
    /\ [][(mounted /\ isLoadingPayments' # isLoadingPayments)
            => (isLoadingSettlement' = isLoadingSettlement
                /\ settlementData' = settlementData)]_vars

C9_Witness ==
    /\ command = "menuBar"
    /\ mounted
    /\ isLoadingPayments
    /\ ~isLoadingSettlement
    /\ ~HasSettlementData
    /\ ShowsNoUpcoming

\* C10: the displayed collection changes only in the step that completes a
\* payments fetch; no refund step changes it, and it stays as it is while a
\* re-fetch is in flight.
C10_DataChangesOnlyOnFetch ==
    [][/\ data' # data => (isLoadingPayments /\ ~isLoadingPayments')
       /\ refund' # refund => data' = data
       /\ (isLoadingPayments' /\ data.present) => data' = data]_vars

C10_Witness ==
    /\ data.present
    /\ isLoadingPayments
    /\ \E w \in Workflows : Ended(w) /\ refund[w].result = "ok"
    /\ \E w \in Workflows : refund[w].pc = "Processing"

\* the indices of the payments of c whose status is s
Matching(c, s) == {i \in 1..Len(c) : c[i].status = s}

\* the k-th smallest element of a set of indices
Nth(idx, k) == CHOOSE i \in idx : Cardinality({j \in idx : j <= i}) = k

\* C7: with selector "all" the filtered list is the collection itself;
\* otherwise it is exactly the subsequence of the payments whose status is the
\* selector, in the collection's order, and filtering it again changes nothing.
C7_FilterIsOrderedSubsequence ==
    out.evaluated =>
        /\ statusFilter = "all" => out.value = AllPayments
        /\ statusFilter # "all" =>
              /\ Len(out.value) = Cardinality(Matching(AllPayments, statusFilter))
              /\ \A k \in 1..Len(out.value) :
                    out.value[k] = AllPayments[Nth(Matching(AllPayments, statusFilter), k)]
        /\ FilteredPayments(out.value, statusFilter) = out.value

C7_Witness ==
    /\ out.evaluated
    /\ statusFilter = "paid"
    /\ Len(AllPayments) = 3
    /\ AllPayments[1].status = "paid"
    /\ AllPayments[2].status = "refunded"
    /\ AllPayments[3].status = "paid"
    /\ out.value = <<AllPayments[1], AllPayments[3]>>

\* the start of the local day that holds t
MidnightOf(t) == CHOOSE m \in 0..t : m % TicksPerDay = 0 /\ t - m < TicksPerDay

\* the indices of the paid payments created on or after midnight
Qualifying(c, t) ==
    {i \in 1..Len(c) : c[i].status = "paid" /\ c[i].createdAt >= MidnightOf(t)}

RECURSIVE SumValues(_, _)
SumValues(c, idx) ==
    IF idx = {} THEN 0
    ELSE LET i == CHOOSE j \in idx : TRUE
         IN  ParseFloat(c[i].amount.value) + SumValues(c, idx \ {i})

\* C8: the today aggregate counts exactly the paid payments created on or
\* after today's local midnight; the count is their number, the total is the
\* sum of their values in the currency of the first of them, and with none
\* (or no collection) it is zero EUR with count 0.
C8_TodayAggregate ==
    out.evaluated =>
        LET q == Qualifying(AllPayments, now)
        IN  /\ out.value.transactionCount = Cardinality(q)
            /\ q # {} =>
                  out.value.totalAmount =
                      FormatCurrency(SumValues(AllPayments, q),
                                     AllPayments[Nth(q, 1)].amount.currency)
            /\ q = {} =>
                  /\ out.value.totalAmount = FormatCurrency(0, "EUR")
                  /\ out.value.transactionCount = 0

\* two paid today (10.00 EUR exactly at midnight, then 5.50 USD) and one paid
\* yesterday (3.00 EUR): 15.50 in the first one's currency, count 2
C8_Witness ==
    /\ out.evaluated
    /\ now = LaterToday
    /\ AllPayments =
          <<[status |-> "paid", createdAt |-> Midnight,
             amount |-> [value |-> "10.00", currency |-> "EUR"]],
            [status |-> "paid", createdAt |-> Yesterday,
             amount |-> [value |-> "3.00", currency |-> "EUR"]],
            [status |-> "paid", createdAt |-> LaterToday,
             amount |-> [value |-> "5.50", currency |-> "USD"]]>>
    /\ out.value = [totalAmount |-> <<"EUR-sign", 15, 50>>, transactionCount |-> 2]

====
